---- MODULE Spec2Model ----
(***************************************************************************)
(* Model of src/ast/writing/writer.ts: the description builder             *)
(* ASTWriter.desc, the default ASTNodeWriter.writeWhole, the flattening    *)
(* pass ASTWriter.descToSourceString with its source map, and the entry    *)
(* point ASTWriter.write.                                                  *)
(*                                                                         *)
(* Text is a sequence of Unicode code points; byte offsets are offsets in  *)
(* its UTF-8 encoding.                                                     *)
(***************************************************************************)
EXTENDS Integers, Sequences, FiniteSets, TLC

VARIABLES pc, mapping, ast, args, desc, err, source, size, sourceMap, map0, stack

vars == <<pc, mapping, ast, args, desc, err, source, size, sourceMap, map0, stack>>

(***************************************************************************)
(* Bounds of the model.                                                    *)
(***************************************************************************)
\* ASTNode objects are 1..NumNodes
NumNodes == 2
\* total number of elements (strings and pairs, at every depth) of a SrcDesc
\* handed directly to descToSourceString
MaxElems == 4
\* longest argument list of a desc(...) call made directly
MaxArgs == 2
\* total number of parts (text and child nodes) of the nodes of a tree handed to write
MaxParts == 2

Nodes == 1..NumNodes

\* "a", "b", ";" (1 byte each in UTF-8) and the euro sign (3 bytes in UTF-8)
StrA == <<97>>
StrB == <<98>>
StrSemicolon == <<59>>
StrEuro == <<8364>>

\* the string elements of the descriptions handed to descToSourceString
Fragments == {StrA, StrEuro}

(***************************************************************************)
(* Byte length of text.                                                    *)
(***************************************************************************)
\* UTF-8 encoding of one code point
Utf8Char(cp) ==
    IF cp < 128 THEN <<cp>>
    ELSE IF cp < 2048 THEN <<192 + (cp \div 64), 128 + (cp % 64)>>
    ELSE IF cp < 65536
         THEN <<224 + (cp \div 4096), 128 + ((cp \div 64) % 64), 128 + (cp % 64)>>
    ELSE <<240 + (cp \div 262144), 128 + ((cp \div 4096) % 64),
           128 + ((cp \div 64) % 64), 128 + (cp % 64)>>

RECURSIVE Utf8(_)
Utf8(s) == IF s = <<>> THEN <<>> ELSE Utf8Char(Head(s)) \o Utf8(Tail(s))

\* strByteLen(str): the length of str in bytes of the (UTF-8) encoding
strByteLen(s) == Len(Utf8(s))

(***************************************************************************)
(* SrcDesc ::= (string | [ASTNode, SrcDesc])*                              *)
(* An element is a record; node = 0 marks a string element.                *)
(***************************************************************************)
Text(s) == [node |-> 0, text |-> s, desc |-> <<>>]
Pair(n, d) == [node |-> n, text |-> <<>>, desc |-> d]
IsString(element) == element.node = 0

\* The SrcDescs of k elements over the nodes 1..NumNodes, u of which are
\* in use to the left: nodes are opaque to descToSourceString, so they are
\* numbered in the order of their first pair. Each result carries the number
\* of nodes in use after it.
RECURSIVE DescsFrom(_, _)
DescsFrom(k, u) ==
    IF k = 0 THEN {[d |-> <<>>, used |-> u]}
    ELSE {[d |-> <<Text(f)>> \o r.d, used |-> r.used] :
              f \in Fragments, r \in DescsFrom(k - 1, u)}
         \cup UNION {UNION {UNION {
                  {[d |-> <<Pair(n, in.d)>> \o r.d, used |-> r.used] :
                      r \in DescsFrom(k - 1 - j, in.used)} :
                  in \in DescsFrom(j, IF n > u THEN n ELSE u)} :
                  n \in 1..(IF u < NumNodes THEN u + 1 ELSE NumNodes)} :
                  j \in 0..(k - 1)}

Descs == UNION {{r.d : r \in DescsFrom(k, 0)} : k \in 0..MaxElems}

(***************************************************************************)
(* DescArgs = Array<string | ASTNode | undefined | null>, plus the values  *)
(* a caller can pass at run time that are none of these.                   *)
(*   kind "node":  ref is the node; its constructor is NodeType(ref)       *)
(*   kind "other": ref is the value of arg.constructor as a registry key   *)
(*                 (0: a constructor that is no ASTNode constructor)       *)
(***************************************************************************)
Null == [kind |-> "null", text |-> <<>>, ref |-> 0]
Undefined == [kind |-> "undefined", text |-> <<>>, ref |-> 0]
Str(s) == [kind |-> "string", text |-> s, ref |-> 0]
NodeArg(n) == [kind |-> "node", text |-> <<>>, ref |-> n]
Other(c) == [kind |-> "other", text |-> <<>>, ref |-> c]

\* every node is an instance of its own node class
NodeType(n) == n
Types == {NodeType(n) : n \in Nodes}

\* arg.constructor
Constructor(arg) == IF arg.kind = "node" THEN NodeType(arg.ref) ELSE arg.ref

\* the key under which a pair [arg, ...] records arg: a node is its number,
\* a value that is no node is a negative number
Owner(arg) == IF arg.kind = "node" THEN arg.ref ELSE 0 - arg.ref - 1

SeqsUpTo(S, k) == UNION {[1..m -> S] : m \in 0..k}

\* results of the build pass
NoError == [kind |-> "none", ref |-> 0]
Ok(d) == [err |-> NoError, d |-> d]
Throw(kind, ref) == [err |-> [kind |-> kind, ref |-> ref], d |-> <<>>]

(***************************************************************************)
(* The build pass: ASTWriter.desc and the writer strategies.               *)
(* mapping is the registry: a function from the registered node types to   *)
(* the kind of strategy registered ("default": writeWhole is inherited;    *)
(* "terminated": writeWhole is overridden and appends ";" after the pair). *)
(* ast[n] is the argument list the strategy of node n passes to            *)
(* writer.desc in writeInner.                                              *)
(***************************************************************************)
Modes == {"default", "terminated"}
Mappings == UNION {[S -> Modes] : S \in SUBSET Types}

RECURSIVE DescLoop(_, _, _)
RECURSIVE WriteWhole(_)

\* desc with a node of an unregistered type passed over like an omitted argument
DescArgSkipsMissing(arg) ==
    IF arg.kind \in {"null", "undefined"} THEN Ok(<<>>)
    ELSE IF arg.kind = "string" THEN Ok(<<Text(arg.text)>>)
    ELSE IF Constructor(arg) \notin DOMAIN mapping
         THEN IF arg.kind = "node" THEN Ok(<<>>)
              ELSE Throw("invalid_argument", 0)
    ELSE WriteWhole(arg)

\* desc with an empty string pushed for an omitted argument
DescArgPlaceholder(arg) ==
    IF arg.kind \in {"null", "undefined"} THEN Ok(<<Text(<<>>)>>)
    ELSE IF arg.kind = "string" THEN Ok(<<Text(arg.text)>>)
    ELSE IF Constructor(arg) \notin DOMAIN mapping
         THEN IF arg.kind = "node" THEN Throw("missing_writer", arg.ref)
              ELSE Throw("invalid_argument", 0)
    ELSE WriteWhole(arg)

\* one iteration of the loop of desc: the elements the argument adds to result
DescArg(arg) ==
    IF arg.kind \in {"null", "undefined"} THEN Ok(<<>>)
    ELSE IF arg.kind = "string" THEN Ok(<<Text(arg.text)>>)
    ELSE IF Constructor(arg) \notin DOMAIN mapping
         THEN IF arg.kind = "node" THEN Throw("missing_writer", arg.ref)
              ELSE Throw("invalid_argument", 0)
    ELSE WriteWhole(arg)

DescLoop(as, i, result) ==
    IF i > Len(as) THEN Ok(result)
    ELSE LET r == DescArg(as[i])
         IN  IF r.err # NoError THEN r
             ELSE DescLoop(as, i + 1, result \o r.d)

\* desc(...args)
Desc(as) == DescLoop(as, 1, <<>>)

\* the arguments the strategy's writeInner hands to writer.desc: the parts
\* of the node; a value that is no node has none
Parts(arg) == IF arg.kind = "node" THEN ast[arg.ref] ELSE <<>>

\* writeInner(node, writer)
WriteInner(arg) == Desc(Parts(arg))

\* the inherited writeWhole with text added after the pair
WriteWholeDefaultAddsText(arg, inner) == <<Pair(Owner(arg), inner), Text(StrSemicolon)>>

\* the inherited writeWhole: [[node, this.writeInner(node, writer)]]
WriteWholeDefault(arg, inner) == <<Pair(Owner(arg), inner)>>

\* an overriding writeWhole that adds the semicolon after the pair
WriteWholeTerminated(arg, inner) == <<Pair(Owner(arg), inner), Text(StrSemicolon)>>

\* writer.writeWhole(arg, this), writer being mapping.get(arg.constructor)
WriteWhole(arg) ==
    LET inner == WriteInner(arg)
    IN  IF inner.err # NoError THEN inner
        ELSE IF mapping[Constructor(arg)] = "default"
             THEN Ok(WriteWholeDefault(arg, inner.d))
             ELSE Ok(WriteWholeTerminated(arg, inner.d))

(***************************************************************************)
(* The flattening pass: descToSourceString and its recursive helper.       *)
(* stack holds the activations of helper: the SrcDesc being iterated, the  *)
(* index of the current element, and for a nested activation the node and  *)
(* start of the pair whose description it iterates.                        *)
(***************************************************************************)
Frame(d, n, start) == [cur |-> d, i |-> 1, node |-> n, start |-> start]

EmptyMap == [n \in {} |-> <<0, 0>>]

\* source += element
Emit(src, element) == src \o element

\* size advanced by the number of characters of element
AdvanceChars(sz, element) == sz + Len(element)

\* size += strByteLen(element)
Advance(sz, element) == sz + strByteLen(element)

\* start taken as the number of characters of source
StartChars(sz, src) == Len(src)

\* const start = size
StartOf(sz, src) == sz

\* length taken as size
RangeWhole(start, sz) == <<start, sz>>

\* const length = size - start; the value set is [start, length]
RangeOf(start, sz) == <<start, sz - start>>

\* a set that keeps the range a node already has
MapSetKeepsFirst(m, n, range) ==
    IF n \in DOMAIN m THEN m
    ELSE [k \in DOMAIN m \cup {n} |-> IF k = n THEN range ELSE m[k]]

\* a set that is skipped for an empty range
MapSetSkipsEmpty(m, n, range) ==
    IF range[2] = 0 THEN m
    ELSE [k \in DOMAIN m \cup {n} |-> IF k = n THEN range ELSE m[k]]

\* sourceMap.set(node, range)
MapSet(m, n, range) == [k \in DOMAIN m \cup {n} |-> IF k = n THEN range ELSE m[k]]

Top == stack[Len(stack)]
Element == Top.cur[Top.i]
StepTop == [stack EXCEPT ![Len(stack)].i = @ + 1]

\* lines 113-114 and the call helper(desc)
StartFlatten(d) ==
    /\ source' = <<>>
    /\ size' = 0
    /\ stack' = <<Frame(d, 0, 0)>>

\* descToSourceString(desc, sourceMap) is entered
CallDescToSourceString ==
    /\ pc = "call"
    /\ StartFlatten(desc)
    /\ pc' = "helper"
    /\ UNCHANGED <<mapping, ast, args, desc, err, sourceMap, map0>>

\* write(node, sourceMap): desc = this.desc(node), then descToSourceString
CallWrite ==
    /\ pc = "call"
    /\ LET r == Desc(args)
       IN  IF r.err # NoError
           THEN /\ err' = r.err
                /\ pc' = "threw"
                /\ UNCHANGED <<desc, source, size, stack>>
           ELSE /\ desc' = r.d
                /\ StartFlatten(r.d)
                /\ pc' = "helper"
                /\ UNCHANGED err
    /\ UNCHANGED <<mapping, ast, args, sourceMap, map0>>

\* desc(...args) called on its own
CallDesc ==
    /\ pc = "call"
    /\ LET r == Desc(args)
       IN  /\ err' = r.err
           /\ desc' = r.d
           /\ pc' = IF r.err # NoError THEN "threw" ELSE "done"
    /\ UNCHANGED <<mapping, ast, args, source, size, sourceMap, map0, stack>>

\* helper, element is a string
HelperString ==
    /\ pc = "helper"
    /\ Top.i <= Len(Top.cur)
    /\ IsString(Element)
    /\ source' = Emit(source, Element.text)
    /\ size' = Advance(size, Element.text)
    /\ stack' = StepTop
    /\ UNCHANGED <<pc, mapping, ast, args, desc, err, sourceMap, map0>>

\* helper, element is [node, nodeDesc]: start is taken and helper(nodeDesc) is entered
HelperNode ==
    /\ pc = "helper"
    /\ Top.i <= Len(Top.cur)
    /\ ~IsString(Element)
    /\ stack' = Append(stack, Frame(Element.desc, Element.node, StartOf(size, source)))
    /\ UNCHANGED <<pc, mapping, ast, args, desc, err, source, size, sourceMap, map0>>

\* helper(nodeDesc) returns: length is taken and the range is set
HelperReturn ==
    /\ pc = "helper"
    /\ Top.i > Len(Top.cur)
    /\ Len(stack) > 1
    /\ sourceMap' = MapSet(sourceMap, Top.node, RangeOf(Top.start, size))
    /\ stack' = [SubSeq(stack, 1, Len(stack) - 1) EXCEPT ![Len(stack) - 1].i = @ + 1]
    /\ UNCHANGED <<pc, mapping, ast, args, desc, err, source, size, map0>>

\* helper(desc) returns and descToSourceString returns source
Return ==
    /\ pc = "helper"
    /\ Top.i > Len(Top.cur)
    /\ Len(stack) = 1
    /\ pc' = "done"
    /\ stack' = <<>>
    /\ UNCHANGED <<mapping, ast, args, desc, err, source, size, sourceMap, map0>>

(***************************************************************************)
(* The calls checked: descToSourceString on a SrcDesc and an empty map,    *)
(* write on a tree, a registry and a map, desc on an argument list.        *)
(***************************************************************************)
\* the parts of node n are text and nodes below n; the trees of nodes
\* n..NumNodes with at most budget parts in all
PartValues(n) == {Str(StrEuro)} \cup {NodeArg(m) : m \in {k \in Nodes : k > n}}

RECURSIVE AstsFrom(_, _)
AstsFrom(n, budget) ==
    IF n > NumNodes THEN {EmptyMap}
    ELSE UNION {{(n :> p) @@ rest : rest \in AstsFrom(n + 1, budget - Len(p))} :
                p \in SeqsUpTo(PartValues(n), budget)}

Asts == AstsFrom(1, MaxParts)

\* in the trees under the arguments of a direct desc call, every node but
\* the last holds text and the next node
ChainAst == [n \in Nodes |-> IF n < NumNodes THEN <<Str(StrEuro), NodeArg(n + 1)>>
                                               ELSE <<Str(StrEuro)>>]

\* a source map the caller of write has used before
StaleMap == [n \in Nodes |-> <<7, 7>>]

ArgValues ==
    {Null, Undefined, Str(StrA), Str(StrB)}
    \cup {NodeArg(n) : n \in Nodes}
    \cup {Other(c) : c \in Types \cup {0}}

InitCommon ==
    /\ pc = "call"
    /\ err = NoError
    /\ source = <<>>
    /\ size = 0
    /\ stack = <<>>
    /\ sourceMap = map0

InitDescToSourceString ==
    /\ desc \in Descs
    /\ mapping = EmptyMap
    /\ ast = [n \in Nodes |-> <<>>]
    /\ args = <<>>
    /\ map0 = EmptyMap
    /\ InitCommon

InitWrite ==
    /\ desc = <<>>
    /\ mapping \in Mappings
    /\ ast \in Asts
    /\ args \in {<<NodeArg(n)>> : n \in Nodes}
    /\ map0 \in {EmptyMap, StaleMap}
    /\ InitCommon

InitDesc ==
    /\ desc = <<>>
    /\ mapping \in Mappings
    /\ ast = ChainAst
    /\ args \in SeqsUpTo(ArgValues, MaxArgs)
    /\ map0 = EmptyMap
    /\ InitCommon

Helper ==
    \/ HelperString
    \/ HelperNode
    \/ HelperReturn
    \/ Return

NextDescToSourceString == CallDescToSourceString \/ Helper
NextWrite == CallWrite \/ Helper
NextDesc == CallDesc

\* descToSourceString(desc, new Map())
SpecFlatten == InitDescToSourceString /\ [][NextDescToSourceString]_vars
\* write(node, sourceMap)
SpecWrite == InitWrite /\ [][NextWrite]_vars
\* desc(...args)
SpecDesc == InitDesc /\ [][NextDesc]_vars

(***************************************************************************)
(* What a SrcDesc denotes, computed from the SrcDesc alone.                *)
(***************************************************************************)
\* the text of a SrcDesc flattened on its own
RECURSIVE FlattenText(_)
FlattenText(d) ==
    IF d = <<>> THEN <<>>
    ELSE (IF IsString(Head(d)) THEN Head(d).text ELSE FlattenText(Head(d).desc))
         \o FlattenText(Tail(d))

\* the string elements of a SrcDesc, at every depth, in order
RECURSIVE StringsOf(_)
StringsOf(d) ==
    IF d = <<>> THEN <<>>
    ELSE (IF IsString(Head(d)) THEN <<Head(d).text>> ELSE StringsOf(Head(d).desc))
         \o StringsOf(Tail(d))

RECURSIVE Join(_)
Join(ss) == IF ss = <<>> THEN <<>> ELSE Head(ss) \o Join(Tail(ss))

RECURSIVE SumByteLen(_)
SumByteLen(ss) == IF ss = <<>> THEN 0 ELSE strByteLen(Head(ss)) + SumByteLen(Tail(ss))

\* the pairs [node, nodeDesc] of d from element i on, at every depth: the
\* path of indices leading to the pair, its node, its nested description
\* and the strings to the left of it
RECURSIVE PairsFrom(_, _, _, _)
PairsFrom(d, i, path, before) ==
    IF i > Len(d) THEN {}
    ELSE LET e == d[i]
         IN  (IF IsString(e) THEN {}
              ELSE {[path |-> Append(path, i), node |-> e.node,
                     inner |-> e.desc, before |-> before]}
                   \cup PairsFrom(e.desc, 1, Append(path, i), before))
             \cup PairsFrom(d, i + 1, path, before \o StringsOf(<<e>>))

Pairs(d) == PairsFrom(d, 1, <<>>, <<>>)

\* pair c is nested, directly or transitively, inside pair p
NestedIn(c, p) == Len(p.path) < Len(c.path) /\ SubSeq(c.path, 1, Len(p.path)) = p.path

\* pairs e1 and e2 are elements of the same description, e1 the earlier
Siblings(e1, e2) ==
    /\ Len(e1.path) = Len(e2.path)
    /\ SubSeq(e1.path, 1, Len(e1.path) - 1) = SubSeq(e2.path, 1, Len(e2.path) - 1)
    /\ e1.path[Len(e1.path)] < e2.path[Len(e2.path)]

\* pair e is left of pair f and neither is nested in the other
LeftOf(e, f) ==
    \E k \in 1..Len(e.path) :
        /\ k <= Len(f.path)
        /\ SubSeq(e.path, 1, k - 1) = SubSeq(f.path, 1, k - 1)
        /\ e.path[k] < f.path[k]

\* no pair of d with the node of e is completed after e
LastOfNode(e, d) ==
    \A f \in Pairs(d) : (f.node = e.node /\ f # e) => (NestedIn(f, e) \/ LeftOf(f, e))

Within(c, p) == p[1] <= c[1] /\ c[1] + c[2] <= p[1] + p[2]
Disjoint(a, b) == a[1] + a[2] <= b[1] \/ b[1] + b[2] <= a[1]

\* the len bytes of bytes from offset start on
Slice(bytes, start, len) ==
    IF start >= 0 /\ len >= 0 /\ start + len <= Len(bytes)
    THEN SubSeq(bytes, start + 1, start + len)
    ELSE <<-1>>

Done == pc = "done"
Root == args[1].ref
Registered(n) == NodeType(n) \in DOMAIN mapping

(***************************************************************************)
(* Properties of descToSourceString(desc, new Map()), under SpecFlatten.   *)
(***************************************************************************)
\* C1: after descToSourceString on an empty map, for every node n with map
\* entry (start, length), the length bytes of the returned text from byte
\* offset start on are exactly the text of flattening the nested description
\* of n's pair alone (of the pair of n completed last, when n has several),
\* and the bytes before start are exactly the text emitted before that pair.
C1_ExactSlice ==
    Done =>
        \A n \in DOMAIN sourceMap :
            \E e \in Pairs(desc) :
                /\ e.node = n
                /\ LastOfNode(e, desc)
                /\ Slice(Utf8(source), sourceMap[n][1], sourceMap[n][2])
                       = Utf8(FlattenText(e.inner))
                /\ Slice(Utf8(source), 0, sourceMap[n][1]) = Utf8(Join(e.before))

\* a pair with text inside is followed by a sibling string, as the ";" an
\* overriding writeWhole appends
C1_Witness ==
    /\ Done
    /\ Len(desc) = 2
    /\ ~IsString(desc[1])
    /\ IsString(desc[2])
    /\ sourceMap[desc[1].node] = <<0, 3>>
    /\ Len(Utf8(source)) = 4

\* C2 as stated: for all pairs p and c with c nested inside p, the range
\* recorded for c's node lies inside the range recorded for p's node, also
\* when a node owns more than one pair.
C2_ContainmentAnyDesc ==
    Done =>
        \A p \in Pairs(desc) : \A c \in Pairs(desc) :
            NestedIn(c, p) => Within(sourceMap[c.node], sourceMap[p.node])

\* C2 amended: for all pairs p and c with c nested inside p, each the pair
\* of its node completed last (as it is when the node owns one pair), the
\* range recorded for c's node lies inside the range recorded for p's node.
C2_Containment ==
    Done =>
        \A p \in Pairs(desc) : \A c \in Pairs(desc) :
            (NestedIn(c, p) /\ LastOfNode(p, desc) /\ LastOfNode(c, desc))
                => Within(sourceMap[c.node], sourceMap[p.node])

\* a pair with text inside is nested in the pair of another node, and its
\* node owns an earlier pair too
C2_Witness ==
    /\ Done
    /\ \E p \in Pairs(desc) : \E c \in Pairs(desc) :
        /\ NestedIn(c, p)
        /\ c.node # p.node
        /\ LastOfNode(p, desc)
        /\ LastOfNode(c, desc)
        /\ sourceMap[c.node][2] > 0
        /\ \E f \in Pairs(desc) : f.node = c.node /\ f # c

\* C3 as stated: for any two sibling pairs, the ranges recorded for their
\* nodes do not overlap: the earlier one's start + length is at most the
\* later one's start.
C3_SiblingsAnyDesc ==
    Done =>
        \A e1 \in Pairs(desc) : \A e2 \in Pairs(desc) :
            Siblings(e1, e2)
                => sourceMap[e1.node][1] + sourceMap[e1.node][2] <= sourceMap[e2.node][1]

\* C3 amended: for any two sibling pairs, each the pair of its node
\* completed last (as it is when the node owns one pair), the earlier one's
\* recorded start + length is at most the later one's recorded start.
C3_SiblingNonOverlap ==
    Done =>
        \A e1 \in Pairs(desc) : \A e2 \in Pairs(desc) :
            (Siblings(e1, e2) /\ LastOfNode(e1, desc) /\ LastOfNode(e2, desc))
                => sourceMap[e1.node][1] + sourceMap[e1.node][2] <= sourceMap[e2.node][1]

\* two sibling pairs of different nodes, both with text inside
C3_Witness ==
    /\ Done
    /\ \E e1 \in Pairs(desc) : \E e2 \in Pairs(desc) :
        /\ Siblings(e1, e2)
        /\ LastOfNode(e1, desc)
        /\ LastOfNode(e2, desc)
        /\ sourceMap[e1.node][2] > 0
        /\ sourceMap[e2.node][2] > 0

\* C4: in the map descToSourceString fills from an empty map, the byte spans
\* of two different nodes are disjoint or one contains the other.
C4_NoPartialOverlap ==
    Done =>
        \A n \in DOMAIN sourceMap : \A m \in DOMAIN sourceMap :
            n # m => \/ Disjoint(sourceMap[n], sourceMap[m])
                     \/ Within(sourceMap[n], sourceMap[m])
                     \/ Within(sourceMap[m], sourceMap[n])

\* two nodes with text, one span strictly inside the other
C4_Witness ==
    /\ Done
    /\ \E n \in DOMAIN sourceMap : \E m \in DOMAIN sourceMap :
        /\ n # m
        /\ sourceMap[m][2] > 0
        /\ sourceMap[n][2] > sourceMap[m][2]
        /\ Within(sourceMap[m], sourceMap[n])
        /\ ~Disjoint(sourceMap[n], sourceMap[m])

\* C5: size counts bytes: in every state size is the byte length of the
\* text emitted so far, and after descToSourceString every recorded start is
\* the sum of the byte lengths of the strings emitted before the pair and
\* every recorded length the sum of the byte lengths of the strings inside
\* it (of the pair of the node completed last).
C5_ByteOffsets ==
    /\ size = strByteLen(source)
    /\ Done =>
        /\ size = SumByteLen(StringsOf(desc))
        /\ \A n \in DOMAIN sourceMap :
               \E e \in Pairs(desc) :
                   /\ e.node = n
                   /\ LastOfNode(e, desc)
                   /\ sourceMap[n] = <<SumByteLen(e.before), SumByteLen(StringsOf(e.inner))>>

\* the one string of the description is the euro sign, one character of 3
\* bytes, inside a pair: size has advanced by 3
C5_Witness ==
    /\ Done
    /\ StringsOf(desc) = <<StrEuro>>
    /\ Len(source) = 1
    /\ size = 3
    /\ \E n \in DOMAIN sourceMap : sourceMap[n] = <<0, 3>>

\* C7 as stated: the number of entries of the map after the call is the
\* number of pairs of the description.
C7_EntryPerPair == Done => Cardinality(DOMAIN sourceMap) = Cardinality(Pairs(desc))

\* C7 amended: the map holds one entry per node that owns a pair: its
\* entries are the nodes of the pairs at every depth, and their number is
\* the number of pairs exactly when no node owns two pairs.
C7_EntryPerNode ==
    Done =>
        /\ DOMAIN sourceMap = {e.node : e \in Pairs(desc)}
        /\ (Cardinality(DOMAIN sourceMap) = Cardinality(Pairs(desc)))
               <=> (\A e \in Pairs(desc) : \A f \in Pairs(desc) : e.node = f.node => e = f)

\* a node owns two pairs, one of them nested and empty
C7_Witness ==
    /\ Done
    /\ Cardinality(DOMAIN sourceMap) = 2
    /\ Cardinality(Pairs(desc)) = 3
    /\ \E e \in Pairs(desc) : Len(e.path) = 2 /\ e.inner = <<>>

(***************************************************************************)
(* Properties of write(node, sourceMap), under SpecWrite.                  *)
(***************************************************************************)
\* the child nodes among the parts of n
Children(n) == {ast[n][i].ref : i \in {j \in 1..Len(ast[n]) : ast[n][j].kind = "node"}}

\* the nodes at which the build pass can arrive from the nodes of S: the
\* children of a node are met only when its strategy is found
RECURSIVE ReachFrom(_, _)
ReachFrom(S, k) ==
    IF k = 0 THEN S
    ELSE ReachFrom(S \cup UNION {Children(n) : n \in {m \in S : Registered(m)}}, k - 1)

Reach == ReachFrom({Root}, NumNodes)

\* C6: when the root or a node met at any depth of the build pass has no
\* strategy in the registry, write fails with the missing-writer error
\* naming such a node, returns no text and leaves the caller's source map
\* as it was before the call.
C6_MissingWriterAtomic ==
    (pc # "call" /\ \E n \in Reach : ~Registered(n)) =>
        /\ pc = "threw"
        /\ err.kind = "missing_writer"
        /\ err.ref \in Reach
        /\ ~Registered(err.ref)
        /\ source = <<>>
        /\ stack = <<>>
        /\ sourceMap = map0

\* the root is registered, a node below it is not, and the caller's map
\* holds entries from before the call
C6_Witness ==
    /\ pc = "threw"
    /\ Registered(Root)
    /\ err = [kind |-> "missing_writer", ref |-> NumNodes]
    /\ map0 = StaleMap
    /\ sourceMap = StaleMap

\* C10: when the root's strategy inherits writeWhole, the text write returns
\* is the flattening of writeInner(root) with nothing added, and the map
\* entry of the root is (0, byte length of the returned text), whatever
\* nodes, repeated or not, the inner description holds.
C10_RootOwnsWholeText ==
    (Done /\ Registered(Root) /\ mapping[NodeType(Root)] = "default") =>
        /\ source = FlattenText(WriteInner(args[1]).d)
        /\ Root \in DOMAIN sourceMap
        /\ sourceMap[Root] = <<0, strByteLen(source)>>

\* the root inherits writeWhole and holds the same child twice, the child's
\* strategy appends ";" after the child's pair
C10_Witness ==
    /\ Done
    /\ Registered(Root)
    /\ mapping[NodeType(Root)] = "default"
    /\ \E c \in Nodes :
        /\ ast[Root] = <<NodeArg(c), NodeArg(c)>>
        /\ Registered(c)
        /\ mapping[NodeType(c)] = "terminated"
    /\ map0 = StaleMap
    /\ sourceMap[Root] = <<0, 2>>

(***************************************************************************)
(* Properties of desc(...args), under SpecDesc.                            *)
(***************************************************************************)
IsGiven(arg) == arg.kind \notin {"null", "undefined"}
Given(as) == SelectSeq(as, IsGiven)

\* the elements of the arguments' contributions in order: the text of a
\* string, the writeWhole result of anything else
RECURSIVE Contributions(_)
Contributions(as) ==
    IF as = <<>> THEN <<>>
    ELSE (IF Head(as).kind = "string" THEN <<Text(Head(as).text)>>
          ELSE WriteWhole(Head(as)).d)
         \o Contributions(Tail(as))

FirstObject(i) ==
    /\ i \in 1..Len(args)
    /\ args[i].kind \in {"node", "other"}
    /\ \A j \in 1..(i - 1) : args[j].kind \notin {"node", "other"}

\* C9: desc with an argument that is neither null, undefined, text nor a
\* node fails with the invalid-argument error, and desc with a node of an
\* unregistered type fails with the missing-writer error.
C9_InvalidVersusMissing ==
    pc # "call" =>
        \A i \in 1..Len(args) :
            FirstObject(i) =>
                /\ args[i].kind = "other"
                       => (pc = "threw" /\ err.kind = "invalid_argument")
                /\ (args[i].kind = "node" /\ ~Registered(args[i].ref))
                       => (pc = "threw" /\ err.kind = "missing_writer")

====
